---- MODULE Spec2Model ----
(***************************************************************************)
(* A model of nutrition_models.py: FoodItem, RecipeIngredient, Recipe,     *)
(* DailyMealPlan, grocery_list_from_plans and the daily-target formulas.   *)
(*                                                                         *)
(* Numbers.  The program computes with Python floats.  Here every number   *)
(* is an exact rational <<n, d>> in lowest terms with d > 0, so the        *)
(* properties below are statements of real arithmetic ("within floating-   *)
(* point tolerance", as the specification puts it); the order of every     *)
(* multiplication, division and summation is kept as the code has it.      *)
(*                                                                         *)
(* Objects.  FoodItem, Recipe and DailyMealPlan instances are named by     *)
(* ids (references).  A recipe's ingredient holds a reference to its food, *)
(* a plan holds references to its recipes.                                 *)
(***************************************************************************)
EXTENDS Integers, Sequences, FiniteSets, TLC

VARIABLES
    recipes,    \* the Recipe objects: reference -> [name, ingredients, notes]
    plans,      \* the DailyMealPlan objects: reference -> [day, recipes]
    lastOp,     \* history: the mutating call made last, with its arguments
    before,     \* history: recipes and plans as that call found them
    call,       \* the pure function called last, with its arguments
    result      \* the value that call returned

vars == <<recipes, plans, lastOp, before, call, result>>

-----------------------------------------------------------------------------
(* Bounds of the model *)

\* total number of Recipe.add calls explored
MaxIngredients == 2
\* total number of DailyMealPlan.add_recipe calls explored
MaxPlanned == 2

-----------------------------------------------------------------------------
(* Exact rational arithmetic standing for float arithmetic *)

Abs(n) == IF n < 0 THEN -n ELSE n

RECURSIVE GCD(_, _)
GCD(a, b) == IF b = 0 THEN a ELSE GCD(b, a % b)

Rat(n, d) ==
    LET g == GCD(Abs(n), d)
    IN  <<n \div g, d \div g>>

RatOf(n) == <<n, 1>>

RAdd(x, y) ==
    LET g == GCD(x[2], y[2])
    IN  Rat(x[1] * (y[2] \div g) + y[1] * (x[2] \div g), x[2] * (y[2] \div g))

RMul(x, y) == Rat(x[1] * y[1], x[2] * y[2])

\* x / y for y > 0
RDiv(x, y) == RMul(x, <<y[2], y[1]>>)

Zero == RatOf(0)

\* the float literal 1000.0
Thousand == RatOf(1000)

-----------------------------------------------------------------------------
(* Constants and conversions *)

KJ_PER_KCAL == Rat(4184, 1000)

kcal_to_kj(kcal) == RMul(kcal, KJ_PER_KCAL)

kj_to_kcal(kj) == RDiv(kj, KJ_PER_KCAL)

-----------------------------------------------------------------------------
(* FoodItem *)

FoodCategory == {"PROTEIN", "CARB", "FAT", "VEG", "SUPPLEMENT", "OTHER"}

\* The FoodItem instances of the model.  breast and rice are the data of
\* foods_and_recipes.py; breast_again is a second instance constructed with
\* the very same field values as breast; breast_skin_on shares breast's name
\* but differs in category, energy density and price.
FoodIds == {"breast", "breast_again", "rice", "breast_skin_on"}

FoodItem ==
    [f \in FoodIds |->
        CASE f = "breast" ->
                [name |-> "Chicken breast, cooked (meat only)",
                 category |-> "PROTEIN",
                 kj_per_kg |-> Rat(69036, 10),
                 dollars_per_kg |-> Rat(1761, 100),
                 notes |-> ""]
          [] f = "breast_again" ->
                [name |-> "Chicken breast, cooked (meat only)",
                 category |-> "PROTEIN",
                 kj_per_kg |-> Rat(69036, 10),
                 dollars_per_kg |-> Rat(1761, 100),
                 notes |-> ""]
          [] f = "rice" ->
                [name |-> "White rice, cooked (long-grain, enriched)",
                 category |-> "CARB",
                 kj_per_kg |-> Rat(54392, 10),
                 dollars_per_kg |-> Rat(75, 100),
                 notes |-> ""]
          [] f = "breast_skin_on" ->
                [name |-> "Chicken breast, cooked (meat only)",
                 category |-> "FAT",
                 kj_per_kg |-> Rat(8240, 1),
                 dollars_per_kg |-> Rat(1100, 100),
                 notes |-> "skin on"]]

\* a variant comparing by identity, as a class without a generated __eq__ does
FoodItem_eq_identity(a, b) == a = b

\* the __eq__ that @dataclass generates: the fields compared as a tuple
FoodItem___eq__(a, b) == FoodItem[a] = FoodItem[b]

\* key comparison of a dict keyed by FoodItem: identity first, then __eq__
\* (__hash__, generated because the dataclass is frozen, hashes the same
\* fields, so equal items always land in the same bucket)
FoodKeyEq(a, b) == a = b \/ FoodItem___eq__(a, b)

\* a variant with the wrong power of ten
FoodItem_kj_per_gram_per_100(f) == RDiv(FoodItem[f].kj_per_kg, RatOf(100))

FoodItem_kj_per_gram(f) == RDiv(FoodItem[f].kj_per_kg, Thousand)

FoodItem_energy_kj(f, grams) == RMul(FoodItem_kj_per_gram(f), grams)

FoodItem_energy_kcal(f, grams) == kj_to_kcal(FoodItem_energy_kj(f, grams))

FoodItem_cost(f, grams) == RMul(FoodItem[f].dollars_per_kg, RDiv(grams, Thousand))

-----------------------------------------------------------------------------
(* RecipeIngredient: a record [food |-> FoodId, grams |-> rational] *)

RecipeIngredient(food, grams) == [food |-> food, grams |-> grams]

RecipeIngredient_energy_kj(ing) == FoodItem_energy_kj(ing.food, ing.grams)

RecipeIngredient_energy_kcal(ing) == FoodItem_energy_kcal(ing.food, ing.grams)

RecipeIngredient_cost(ing) == FoodItem_cost(ing.food, ing.grams)

-----------------------------------------------------------------------------------------------------------------------------------------------------
(* Python containers *)

\* sum(<generator>) is a left fold from the integer 0; each use below is
\* the fold over the sequence its generator walks: <name>_sum(xs, i, acc)
\* is the rest of the fold from position i on, acc the sum so far.

\* A dict is the sequence of its <<key, value>> entries in insertion order.
\* Keys that are str or Enum members compare by value:
DictHas(d, k) == \E i \in 1..Len(d) : d[i][1] = k

DictIndex(d, k) == CHOOSE i \in 1..Len(d) : d[i][1] = k

\* d.get(k, default)
DictGet(d, k, default) == IF DictHas(d, k) THEN d[DictIndex(d, k)][2] ELSE default

\* d[k] = v: an existing entry keeps its key and takes the new value
DictSet(d, k, v) ==
    IF DictHas(d, k)
    THEN [d EXCEPT ![DictIndex(d, k)] = <<@[1], v>>]
    ELSE Append(d, <<k, v>>)

\* Keys that are FoodItem objects compare with FoodKeyEq; an existing entry
\* keeps the key object it was created with:
FoodDictHas(d, k) == \E i \in 1..Len(d) : FoodKeyEq(d[i][1], k)

FoodDictIndex(d, k) == CHOOSE i \in 1..Len(d) : FoodKeyEq(d[i][1], k)

FoodDictGet(d, k, default) ==
    IF FoodDictHas(d, k) THEN d[FoodDictIndex(d, k)][2] ELSE default

FoodDictSet(d, k, v) ==
    IF FoodDictHas(d, k)
    THEN [d EXCEPT ![FoodDictIndex(d, k)] = <<@[1], v>>]
    ELSE Append(d, <<k, v>>)

DictKeys(d) == {d[i][1] : i \in 1..Len(d)}

-----------------------------------------------------------------------------
(* Recipe: self = [name, ingredients, notes] *)

RecipeIds == {"r1", "r2"}

RECURSIVE Recipe_total_kj_sum(_, _, _)
Recipe_total_kj_sum(ings, i, acc) ==
    IF i > Len(ings) THEN acc
    ELSE Recipe_total_kj_sum(ings, i + 1,
             RAdd(acc, RecipeIngredient_energy_kj(ings[i])))

Recipe_total_kj(self) == Recipe_total_kj_sum(self.ingredients, 1, Zero)

\* a variant converting in the wrong direction
Recipe_total_kcal_times(self) == kcal_to_kj(Recipe_total_kj(self))

Recipe_total_kcal(self) == kj_to_kcal(Recipe_total_kj(self))

RECURSIVE Recipe_total_cost_sum(_, _, _)
Recipe_total_cost_sum(ings, i, acc) ==
    IF i > Len(ings) THEN acc
    ELSE Recipe_total_cost_sum(ings, i + 1,
             RAdd(acc, RecipeIngredient_cost(ings[i])))

Recipe_total_cost(self) == Recipe_total_cost_sum(self.ingredients, 1, Zero)

RECURSIVE by_food_loop(_, _, _)
by_food_loop(ings, i, out) ==
    IF i > Len(ings) THEN out
    ELSE LET name == FoodItem[ings[i].food].name
         IN  by_food_loop(ings, i + 1,
                 DictSet(out, name,
                     RAdd(DictGet(out, name, Zero),
                          RecipeIngredient_energy_kj(ings[i]))))

\* a variant grouping by the food object instead of its name
RECURSIVE by_food_object_loop(_, _, _)
by_food_object_loop(ings, i, out) ==
    IF i > Len(ings) THEN out
    ELSE by_food_object_loop(ings, i + 1,
            DictSet(out, ings[i].food,
                RAdd(DictGet(out, ings[i].food, Zero),
                     RecipeIngredient_energy_kj(ings[i]))))

Recipe_energy_kj_by_food_object(self) ==
    LET d == by_food_object_loop(self.ingredients, 1, <<>>)
    IN  [i \in 1..Len(d) |-> <<FoodItem[d[i][1]].name, d[i][2]>>]

Recipe_energy_kj_by_food(self) == by_food_loop(self.ingredients, 1, <<>>)

RECURSIVE by_category_loop(_, _, _)
by_category_loop(ings, i, out) ==
    IF i > Len(ings) THEN out
    ELSE LET cat == FoodItem[ings[i].food].category
         IN  by_category_loop(ings, i + 1,
                 DictSet(out, cat,
                     RAdd(DictGet(out, cat, Zero),
                          RecipeIngredient_energy_kj(ings[i]))))

\* a variant that assigns instead of accumulating
RECURSIVE by_category_overwrite_loop(_, _, _)
by_category_overwrite_loop(ings, i, out) ==
    IF i > Len(ings) THEN out
    ELSE by_category_overwrite_loop(ings, i + 1,
            DictSet(out, FoodItem[ings[i].food].category,
                    RecipeIngredient_energy_kj(ings[i])))

Recipe_energy_kj_by_category_overwrite(self) ==
    by_category_overwrite_loop(self.ingredients, 1, <<>>)

Recipe_energy_kj_by_category(self) == by_category_loop(self.ingredients, 1, <<>>)

-----------------------------------------------------------------------------
(* Daily target formulas *)

\* x ** 0.75 for a rational x whose numerator and denominator are fourth
\* powers: the cube of the fourth root
Root4(n) == CHOOSE k \in 0..n : k * k * k * k = n

Pow075(x) == Rat(Root4(x[1]) * Root4(x[1]) * Root4(x[1]),
                 Root4(x[2]) * Root4(x[2]) * Root4(x[2]))

rer_kg(weight_kg) == RMul(RatOf(70), Pow075(weight_kg))

\* An optional argument is the sequence of the values passed for it: <<>>
\* when the caller leaves it out, <<v>> when the caller passes v.
ArgOr(arg, default) == IF arg = <<>> THEN default ELSE arg[1]

\* factor: float = 0.8 in the signature of weight_loss_target_kcal
weight_loss_target_kcal_factor == Rat(8, 10)

weight_loss_target_kcal(ideal_weight_kg, factor) ==
    RMul(rer_kg(ideal_weight_kg), ArgOr(factor, weight_loss_target_kcal_factor))

\* factor: float = 0.8 in the signature of weight_loss_target_kj
weight_loss_target_kj_factor == Rat(8, 10)

\* a variant that forgets to pass factor on
weight_loss_target_kj_factor_dropped(ideal_weight_kg, factor) ==
    kcal_to_kj(weight_loss_target_kcal(ideal_weight_kg, <<>>))

weight_loss_target_kj(ideal_weight_kg, factor) ==
    kcal_to_kj(weight_loss_target_kcal(ideal_weight_kg,
                   <<ArgOr(factor, weight_loss_target_kj_factor)>>))

-----------------------------------------------------------------------------
(* DailyMealPlan: self = [day, recipes], recipes a sequence of references   *)
(* to Recipe objects; rs is the store that maps a reference to its Recipe   *)

PlanIds == {"p1", "p2"}

\* a variant that counts every recipe once, however often the plan holds it
DailyMealPlan_total_kj_distinct(self, rs) ==
    LET first == {i \in 1..Len(self.recipes) :
                     \A j \in 1..(i - 1) : self.recipes[j] # self.recipes[i]}
        RECURSIVE Over(_)
        Over(S) == IF S = {} THEN Zero
                   ELSE LET i == CHOOSE i \in S : TRUE
                        IN  RAdd(Recipe_total_kj(rs[self.recipes[i]]), Over(S \ {i}))
    IN  Over(first)

RECURSIVE DailyMealPlan_total_kj_sum(_, _, _, _)
DailyMealPlan_total_kj_sum(held, i, acc, rs) ==
    IF i > Len(held) THEN acc
    ELSE DailyMealPlan_total_kj_sum(held, i + 1,
             RAdd(acc, Recipe_total_kj(rs[held[i]])), rs)

DailyMealPlan_total_kj(self, rs) == DailyMealPlan_total_kj_sum(self.recipes, 1, Zero, rs)

DailyMealPlan_total_kcal(self, rs) == kj_to_kcal(DailyMealPlan_total_kj(self, rs))

RECURSIVE DailyMealPlan_total_cost_sum(_, _, _, _)
DailyMealPlan_total_cost_sum(held, i, acc, rs) ==
    IF i > Len(held) THEN acc
    ELSE DailyMealPlan_total_cost_sum(held, i + 1,
             RAdd(acc, Recipe_total_cost(rs[held[i]])), rs)

DailyMealPlan_total_cost(self, rs) ==
    DailyMealPlan_total_cost_sum(self.recipes, 1, Zero, rs)

-----------------------------------------------------------------------------
(* grocery_list_from_plans(plans): plans is a list of references to         *)
(* DailyMealPlan objects, ps and rs the stores of plans and recipes         *)

\* a variant that assigns the grams instead of accumulating them
RECURSIVE grocery_ingredients_loop_overwrite(_, _, _)
grocery_ingredients_loop_overwrite(ings, k, totals) ==
    IF k > Len(ings) THEN totals
    ELSE grocery_ingredients_loop_overwrite(ings, k + 1,
            FoodDictSet(totals, ings[k].food, ings[k].grams))

RECURSIVE grocery_ingredients_loop(_, _, _)
grocery_ingredients_loop(ings, k, totals) ==
    IF k > Len(ings) THEN totals
    ELSE grocery_ingredients_loop(ings, k + 1,
            FoodDictSet(totals, ings[k].food,
                RAdd(FoodDictGet(totals, ings[k].food, Zero), ings[k].grams)))

RECURSIVE grocery_recipes_loop(_, _, _, _)
grocery_recipes_loop(held, j, totals, rs) ==
    IF j > Len(held) THEN totals
    ELSE grocery_recipes_loop(held, j + 1,
            grocery_ingredients_loop(rs[held[j]].ingredients, 1, totals), rs)

RECURSIVE grocery_plans_loop(_, _, _, _, _)
grocery_plans_loop(list, i, totals, ps, rs) ==
    IF i > Len(list) THEN totals
    ELSE grocery_plans_loop(list, i + 1,
            grocery_recipes_loop(ps[list[i]].recipes, 1, totals, rs), ps, rs)

grocery_list_from_plans(list, ps, rs) == grocery_plans_loop(list, 1, <<>>, ps, rs)

-----------------------------------------------------------------------------
(* The state machine: construction, Recipe.add, DailyMealPlan.add_recipe    *)

\* the (food, grams) pairs handed to Recipe.add
AddInputs == {<<"breast", RatOf(100)>>, <<"breast", RatOf(50)>>,
              <<"breast_again", RatOf(50)>>, <<"rice", RatOf(100)>>,
              <<"breast_skin_on", RatOf(50)>>}

NoOp == [op |-> "none", recipe |-> "none", plan |-> "none",
         food |-> "none", grams |-> Zero]

NoCall == [fn |-> "none", food |-> "none", grams |-> Zero,
           weight |-> Zero, factor |-> <<>>]

RECURSIVE TotalLen(_, _)
TotalLen(f, S) ==
    IF S = {} THEN 0
    ELSE LET x == CHOOSE x \in S : TRUE
         IN  Len(f[x]) + TotalLen(f, S \ {x})

IngredientCount == TotalLen([r \in RecipeIds |-> recipes[r].ingredients], RecipeIds)

PlannedCount == TotalLen([p \in PlanIds |-> plans[p].recipes], PlanIds)

\* Recipe(name=r) for every r, DailyMealPlan(day=p) for every p
Init ==
    /\ recipes = [r \in RecipeIds |-> [name |-> r, ingredients |-> <<>>, notes |-> ""]]
    /\ plans = [p \in PlanIds |-> [day |-> p, recipes |-> <<>>]]
    /\ lastOp = NoOp
    /\ before = [recipes |-> [r \in RecipeIds |->
                                [name |-> r, ingredients |-> <<>>, notes |-> ""]],
                 plans |-> [p \in PlanIds |-> [day |-> p, recipes |-> <<>>]]]
    /\ call = NoCall
    /\ result = Zero

\* a variant that inserts at the front
Recipe_add_front(r, food, grams) ==
    /\ IngredientCount < MaxIngredients
    /\ recipes' = [recipes EXCEPT ![r].ingredients =
                      <<RecipeIngredient(food, grams)>> \o @]
    /\ UNCHANGED <<plans, call, result>>

Recipe_add(r, food, grams) ==
    /\ IngredientCount < MaxIngredients
    /\ recipes' = [recipes EXCEPT ![r].ingredients =
                      Append(@, RecipeIngredient(food, grams))]
    /\ UNCHANGED <<plans, call, result>>

\* a variant that skips a recipe the plan already holds
DailyMealPlan_add_recipe_once(p, r) ==
    /\ PlannedCount < MaxPlanned
    /\ plans' = [plans EXCEPT ![p].recipes =
                    IF \E i \in 1..Len(@) : @[i] = r THEN @ ELSE Append(@, r)]
    /\ UNCHANGED <<recipes, call, result>>

DailyMealPlan_add_recipe(p, r) ==
    /\ PlannedCount < MaxPlanned
    /\ plans' = [plans EXCEPT ![p].recipes = Append(@, r)]
    /\ UNCHANGED <<recipes, call, result>>

Next ==
    \/ \E r \in RecipeIds, in \in AddInputs :
           Recipe_add(r, in[1], in[2]) /\ UNCHANGED <<lastOp, before>>
    \/ \E p \in PlanIds, r \in RecipeIds :
           DailyMealPlan_add_recipe(p, r) /\ UNCHANGED <<lastOp, before>>

Spec == Init /\ [][Next]_vars

\* the same calls, each recorded in lastOp with the stores as it found them
AddOp(r, food, grams) ==
    [op |-> "add", recipe |-> r, plan |-> "none", food |-> food, grams |-> grams]

AddRecipeOp(p, r) ==
    [op |-> "add_recipe", recipe |-> r, plan |-> p, food |-> "none", grams |-> Zero]

Recorded(op) ==
    /\ lastOp' = op
    /\ before' = [recipes |-> recipes, plans |-> plans]

NextRecorded ==
    \/ \E r \in RecipeIds, in \in AddInputs :
           Recipe_add(r, in[1], in[2]) /\ Recorded(AddOp(r, in[1], in[2]))
    \/ \E p \in PlanIds, r \in RecipeIds :
           DailyMealPlan_add_recipe(p, r) /\ Recorded(AddRecipeOp(p, r))

SpecRecorded == Init /\ [][NextRecorded]_vars


-----------------------------------------------------------------------------
(* The pure functions, called on inputs drawn from bounded sets: call is    *)
(* the call made, result the value it returned                              *)

\* masses, with 0 and a fractional one
CallGrams == {RatOf(0), RatOf(1), Rat(5, 2), RatOf(50), RatOf(140),
              RatOf(156), RatOf(1000)}

\* weights whose 0.75th power is rational
Weights == {RatOf(0), RatOf(1), RatOf(16), RatOf(81), Rat(1, 16), Rat(81, 16)}

\* the factor argument: left out, or passed
Factors == {<<>>, <<Rat(8, 10)>>, <<RatOf(1)>>, <<Rat(1, 2)>>, <<Rat(6, 10)>>}

FoodCall(fn, f, g) ==
    [fn |-> fn, food |-> f, grams |-> g, weight |-> Zero, factor |-> <<>>]

TargetCall(fn, w, factor) ==
    [fn |-> fn, food |-> "none", grams |-> Zero, weight |-> w, factor |-> factor]

Call_FoodItem_energy_kj(f, g) ==
    /\ call' = FoodCall("FoodItem.energy_kj", f, g)
    /\ result' = FoodItem_energy_kj(f, g)
    /\ UNCHANGED <<recipes, plans, lastOp, before>>

Call_FoodItem_energy_kcal(f, g) ==
    /\ call' = FoodCall("FoodItem.energy_kcal", f, g)
    /\ result' = FoodItem_energy_kcal(f, g)
    /\ UNCHANGED <<recipes, plans, lastOp, before>>

Call_FoodItem_cost(f, g) ==
    /\ call' = FoodCall("FoodItem.cost", f, g)
    /\ result' = FoodItem_cost(f, g)
    /\ UNCHANGED <<recipes, plans, lastOp, before>>

Call_RecipeIngredient_energy_kj(f, g) ==
    /\ call' = FoodCall("RecipeIngredient.energy_kj", f, g)
    /\ result' = RecipeIngredient_energy_kj(RecipeIngredient(f, g))
    /\ UNCHANGED <<recipes, plans, lastOp, before>>

Call_RecipeIngredient_energy_kcal(f, g) ==
    /\ call' = FoodCall("RecipeIngredient.energy_kcal", f, g)
    /\ result' = RecipeIngredient_energy_kcal(RecipeIngredient(f, g))
    /\ UNCHANGED <<recipes, plans, lastOp, before>>

Call_RecipeIngredient_cost(f, g) ==
    /\ call' = FoodCall("RecipeIngredient.cost", f, g)
    /\ result' = RecipeIngredient_cost(RecipeIngredient(f, g))
    /\ UNCHANGED <<recipes, plans, lastOp, before>>

Call_rer_kg(w) ==
    /\ call' = TargetCall("rer_kg", w, <<>>)
    /\ result' = rer_kg(w)
    /\ UNCHANGED <<recipes, plans, lastOp, before>>

Call_weight_loss_target_kcal(w, factor) ==
    /\ call' = TargetCall("weight_loss_target_kcal", w, factor)
    /\ result' = weight_loss_target_kcal(w, factor)
    /\ UNCHANGED <<recipes, plans, lastOp, before>>

Call_weight_loss_target_kj(w, factor) ==
    /\ call' = TargetCall("weight_loss_target_kj", w, factor)
    /\ result' = weight_loss_target_kj(w, factor)
    /\ UNCHANGED <<recipes, plans, lastOp, before>>

NextCalc ==
    \/ \E f \in FoodIds, g \in CallGrams : Call_FoodItem_energy_kj(f, g)
    \/ \E f \in FoodIds, g \in CallGrams : Call_FoodItem_energy_kcal(f, g)
    \/ \E f \in FoodIds, g \in CallGrams : Call_FoodItem_cost(f, g)
    \/ \E f \in FoodIds, g \in CallGrams : Call_RecipeIngredient_energy_kj(f, g)
    \/ \E f \in FoodIds, g \in CallGrams : Call_RecipeIngredient_energy_kcal(f, g)
    \/ \E f \in FoodIds, g \in CallGrams : Call_RecipeIngredient_cost(f, g)
    \/ \E w \in Weights : Call_rer_kg(w)
    \/ \E w \in Weights, factor \in Factors : Call_weight_loss_target_kcal(w, factor)
    \/ \E w \in Weights, factor \in Factors : Call_weight_loss_target_kj(w, factor)

SpecCalc == Init /\ [][NextCalc]_vars

-----------------------------------------------------------------------------
(* Properties of the pure functions *)

\* C9: for every FoodItem and mass g >= 0, energy_kj(g) is
\* kj_per_kg * g / 1000 and cost(g) is dollars_per_kg * g / 1000; a
\* RecipeIngredient(food, grams) reports food.energy_kj(grams) and
\* food.cost(grams); kj_per_kg = 6903.6, dollars_per_kg = 17.61, g = 140
\* give 966.504 and 2.4654.
C9_EnergyAndCost ==
    LET f == call.food
        g == call.grams
        energy == RDiv(RMul(FoodItem[f].kj_per_kg, g), RatOf(1000))
        price == RDiv(RMul(FoodItem[f].dollars_per_kg, g), RatOf(1000))
    IN  /\ call.fn = "FoodItem.energy_kj" => result = energy
        /\ call.fn = "FoodItem.cost" => result = price
        /\ call.fn = "RecipeIngredient.energy_kj" =>
               result = energy /\ result = FoodItem_energy_kj(f, g)
        /\ call.fn = "RecipeIngredient.cost" =>
               result = price /\ result = FoodItem_cost(f, g)
        /\ call.fn \in {"FoodItem.energy_kj", "RecipeIngredient.energy_kj"}
             /\ FoodItem[f].kj_per_kg = Rat(69036, 10) /\ g = RatOf(140) =>
               result = Rat(966504, 1000)
        /\ call.fn \in {"FoodItem.cost", "RecipeIngredient.cost"}
             /\ FoodItem[f].dollars_per_kg = Rat(1761, 100) /\ g = RatOf(140) =>
               result = Rat(24654, 10000)

\* the energy of 140 g of chicken breast, read from an ingredient
C9_Witness ==
    /\ call = FoodCall("RecipeIngredient.energy_kj", "breast", RatOf(140))
    /\ result = Rat(966504, 1000)

-----------------------------------------------------------------------------
(* Mathematical sums the properties below are stated with *)

\* the energy, cost and grams of the ingredients of a sequence, summed
\* from the right
RECURSIVE EnergyOf(_)
EnergyOf(ings) ==
    IF ings = <<>> THEN Zero
    ELSE RAdd(RecipeIngredient_energy_kj(Head(ings)), EnergyOf(Tail(ings)))

RECURSIVE KcalOf(_)
KcalOf(ings) ==
    IF ings = <<>> THEN Zero
    ELSE RAdd(RecipeIngredient_energy_kcal(Head(ings)), KcalOf(Tail(ings)))

RECURSIVE CostOf(_)
CostOf(ings) ==
    IF ings = <<>> THEN Zero
    ELSE RAdd(RecipeIngredient_cost(Head(ings)), CostOf(Tail(ings)))

RECURSIVE GramsOf(_)
GramsOf(ings) ==
    IF ings = <<>> THEN Zero
    ELSE RAdd(Head(ings).grams, GramsOf(Tail(ings)))

\* the sum of the second components of a sequence of pairs
RECURSIVE ValuesOf(_)
ValuesOf(d) == IF d = <<>> THEN Zero ELSE RAdd(Head(d)[2], ValuesOf(Tail(d)))

Positions(xs) == 1..Len(xs)

Ingredients(r) == recipes[r].ingredients

PlanRecipes(p) == plans[p].recipes

-----------------------------------------------------------------------------
(* Properties of Recipe *)

\* C1: for every recipe reached by add calls, total_kj is the sum of the
\* ingredients' energy_kj, total_cost the sum of their cost, and total_kcal
\* the sum of their energy_kcal; an empty recipe gives 0 for each.
C1_RecipeTotalsAreSums ==
    \A r \in RecipeIds :
        /\ Recipe_total_kj(recipes[r]) = EnergyOf(Ingredients(r))
        /\ Recipe_total_cost(recipes[r]) = CostOf(Ingredients(r))
        /\ Recipe_total_kcal(recipes[r]) = KcalOf(Ingredients(r))
        /\ Ingredients(r) = <<>> =>
               /\ Recipe_total_kj(recipes[r]) = Zero
               /\ Recipe_total_cost(recipes[r]) = Zero
               /\ Recipe_total_kcal(recipes[r]) = Zero

\* a recipe holding two ingredients of different foods, beside an empty one
C1_Witness ==
    \E r, e \in RecipeIds :
        /\ Len(Ingredients(r)) = 2
        /\ FoodItem[Ingredients(r)[1].food] # FoodItem[Ingredients(r)[2].food]
        /\ Recipe_total_kcal(recipes[r]) # Zero
        /\ Ingredients(e) = <<>>

\* C4: the values of energy_kj_by_category() sum to total_kj.
C4_CategoryValuesSumToTotal ==
    \A r \in RecipeIds :
        LET d == Recipe_energy_kj_by_category(recipes[r])
        IN  ValuesOf(d) = Recipe_total_kj(recipes[r])

\* a recipe with two ingredients of one category
C4_Witness ==
    \E r \in RecipeIds :
        /\ Len(Ingredients(r)) = 2
        /\ Len(Recipe_energy_kj_by_category(recipes[r])) = 1
        /\ Ingredients(r)[1].food # Ingredients(r)[2].food
        /\ Recipe_total_kj(recipes[r]) # Zero

\* C5: energy_kj_by_food() has exactly one entry per distinct food name
\* among the ingredients, holding the sum of energy_kj over the ingredients
\* whose food has that name, whatever FoodItem instance they refer to.
C5_ByFoodGroupsByName ==
    \A r \in RecipeIds :
        LET d == Recipe_energy_kj_by_food(recipes[r])
            ings == Ingredients(r)
        IN  /\ DictKeys(d) = {FoodItem[ings[i].food].name : i \in Positions(ings)}
            /\ Len(d) = Cardinality(DictKeys(d))
            /\ \A e \in Positions(d) :
                   LET Named(ing) == FoodItem[ing.food].name = d[e][1]
                   IN  d[e][2] = EnergyOf(SelectSeq(ings, Named))

\* two FoodItems sharing a name but not category or energy density, in one recipe
C5_Witness ==
    \E r \in RecipeIds :
        /\ Len(Ingredients(r)) = 2
        /\ Ingredients(r)[1].food = "breast"
        /\ Ingredients(r)[2].food = "breast_skin_on"
        /\ Len(Recipe_energy_kj_by_food(recipes[r])) = 1

\* C8: Recipe.add(food, grams) appends exactly the ingredient (food, grams)
\* at the end of that recipe's ingredients and changes nothing else.
C8_AddStep ==
    \A r \in RecipeIds, in \in AddInputs :
        lastOp' = AddOp(r, in[1], in[2]) =>
            /\ Len(recipes'[r].ingredients) = Len(recipes[r].ingredients) + 1
            /\ recipes'[r].ingredients[Len(recipes'[r].ingredients)] =
                   [food |-> in[1], grams |-> in[2]]
            /\ \A i \in Positions(recipes[r].ingredients) :
                   recipes'[r].ingredients[i] = recipes[r].ingredients[i]
            /\ recipes'[r].name = recipes[r].name
            /\ recipes'[r].notes = recipes[r].notes
            /\ \A o \in RecipeIds \ {r} : recipes'[o] = recipes[o]
            /\ plans' = plans

C8_AddAppendsOnly == [][C8_AddStep]_vars

\* the last call was an add to a recipe that already held another
\* ingredient, while a plan holds a recipe too
C8_Witness ==
    /\ lastOp.op = "add"
    /\ Len(Ingredients(lastOp.recipe)) = 2
    /\ Ingredients(lastOp.recipe)[1] # Ingredients(lastOp.recipe)[2]
    /\ Ingredients(lastOp.recipe)[2] = [food |-> lastOp.food, grams |-> lastOp.grams]
    /\ \E p \in PlanIds : plans[p].recipes # <<>>

-----------------------------------------------------------------------------
(* Properties of DailyMealPlan *)

\* the sum of value[r] over the positions of the sequence held, a
\* reference counted once per position it occupies
RECURSIVE SumOfHeld(_, _)
SumOfHeld(held, value) ==
    IF held = <<>> THEN Zero
    ELSE RAdd(value[Head(held)], SumOfHeld(Tail(held), value))

\* C6: a plan's total_kj and total_cost are the sums of its recipes'
\* total_kj and total_cost, a recipe counted once per position it occupies;
\* total_kcal is total_kj / 4.184.
C6_PlanTotalsAreSums ==
    \A p \in PlanIds :
        LET kj == [r \in RecipeIds |-> Recipe_total_kj(recipes[r])]
            cost == [r \in RecipeIds |-> Recipe_total_cost(recipes[r])]
            held == PlanRecipes(p)
            total_kj == SumOfHeld(held, kj)
        IN  /\ DailyMealPlan_total_kj(plans[p], recipes) = total_kj
            /\ DailyMealPlan_total_cost(plans[p], recipes) = SumOfHeld(held, cost)
            /\ DailyMealPlan_total_kcal(plans[p], recipes) =
                   RDiv(total_kj, Rat(4184, 1000))

\* a plan holding the same non-empty recipe at two positions
C6_Witness ==
    \E p \in PlanIds :
        /\ Len(PlanRecipes(p)) = 2
        /\ PlanRecipes(p)[1] = PlanRecipes(p)[2]
        /\ Ingredients(PlanRecipes(p)[1]) # <<>>
        /\ DailyMealPlan_total_kj(plans[p], recipes) # Zero

-----------------------------------------------------------------------------
(* Properties of grocery_list_from_plans *)

\* the plan lists handed to grocery_list_from_plans
PlanLists == {<<>>, <<"p1">>, <<"p1", "p2">>, <<"p2", "p1", "p2">>}

\* the ingredients of the recipes held, one after the other, a recipe's
\* ingredients once per position it occupies
RECURSIVE IngredientsOfRecipes(_, _)
IngredientsOfRecipes(held, rs) ==
    IF held = <<>> THEN <<>>
    ELSE rs[Head(held)].ingredients \o IngredientsOfRecipes(Tail(held), rs)

\* every ingredient occurrence reached through the plan list, in the
\* stores ps and rs
RECURSIVE Occurrences(_, _, _)
Occurrences(list, ps, rs) ==
    IF list = <<>> THEN <<>>
    ELSE IngredientsOfRecipes(ps[Head(list)].recipes, rs)
             \o Occurrences(Tail(list), ps, rs)

\* the grams requested through the list for the FoodItem object f
GramsOfObject(list, ps, rs, f) ==
    LET IsF(ing) == ing.food = f
    IN  GramsOf(SelectSeq(Occurrences(list, ps, rs), IsF))

\* the grams requested through the list for FoodItems equal to f
GramsOfEqual(list, ps, rs, f) ==
    LET EqualsF(ing) == FoodItem[ing.food] = FoodItem[f]
    IN  GramsOf(SelectSeq(Occurrences(list, ps, rs), EqualsF))

FoodsIn(list, ps, rs) ==
    LET occ == Occurrences(list, ps, rs)
    IN  {occ[i].food : i \in 1..Len(occ)}

\* C2: grocery_list_from_plans(plans) maps each FoodItem to the sum of grams
\* over all ingredient occurrences of that food across every recipe of every
\* plan (once per occurrence of a recipe), and its keys are exactly the
\* foods that occur; FoodItems are told apart as Python's == tells them.
C2_GroceryTotals ==
    \A list \in PlanLists :
        LET g == grocery_list_from_plans(list, plans, recipes)
            foods == FoodsIn(list, plans, recipes)
        IN  /\ {FoodItem[k] : k \in DictKeys(g)} = {FoodItem[f] : f \in foods}
            /\ DictKeys(g) \subseteq foods
            /\ \A e \in Positions(g) :
                   g[e][2] = GramsOfEqual(list, plans, recipes, g[e][1])
            /\ \A a, b \in Positions(g) :
                   FoodItem[g[a][1]] = FoodItem[g[b][1]] => a = b

\* two plans with one recipe each, holding the same FoodItem at 100 g and
\* 50 g: the list of both plans gives 150 g
C2_Witness ==
    \E p, q \in PlanIds, r, u \in RecipeIds, f \in FoodIds :
        /\ p # q /\ r # u
        /\ PlanRecipes(p) = <<r>> /\ PlanRecipes(q) = <<u>>
        /\ Ingredients(r) = <<[food |-> f, grams |-> RatOf(100)]>>
        /\ Ingredients(u) = <<[food |-> f, grams |-> RatOf(50)]>>
        /\ grocery_list_from_plans(<<p, q>>, plans, recipes) = <<(<<f, RatOf(150)>>)>>

\* C3 as stated: the mapping is keyed by FoodItem identity, so every
\* FoodItem object that occurs has a key of its own holding the grams of
\* that object alone, also when another object has identical fields.
C3_KeyedByIdentity ==
    \A list \in PlanLists :
        LET g == grocery_list_from_plans(list, plans, recipes)
        IN  \A f \in FoodsIn(list, plans, recipes) :
                \E e \in Positions(g) :
                    g[e][1] = f /\ g[e][2] = GramsOfObject(list, plans, recipes, f)

\* C3 as the code has it: the mapping is keyed by FoodItem equality (all
\* five fields): objects with identical fields share one key, which holds
\* the grams of all of them, and objects differing in a field have
\* separate keys.
C3_KeyedByFields ==
    \A list \in PlanLists :
        LET g == grocery_list_from_plans(list, plans, recipes)
            foods == FoodsIn(list, plans, recipes)
            Entry(f) == {e \in Positions(g) : FoodItem[g[e][1]] = FoodItem[f]}
        IN  /\ Len(g) = Cardinality({FoodItem[f] : f \in foods})
            /\ \A f \in foods :
                   /\ Cardinality(Entry(f)) = 1
                   /\ \A e \in Entry(f) :
                          g[e][2] = GramsOfEqual(list, plans, recipes, f)
            /\ \A f, o \in foods :
                   (Entry(f) = Entry(o)) <=> (FoodItem[f] = FoodItem[o])

\* two distinct FoodItem objects with identical fields, requested through
\* one plan list, under one key
C3_Witness ==
    \E list \in PlanLists :
        LET g == grocery_list_from_plans(list, plans, recipes)
        IN  /\ {"breast", "breast_again"} \subseteq FoodsIn(list, plans, recipes)
            /\ Len(g) = 1
            /\ g[1][2] = RAdd(GramsOfObject(list, plans, recipes, "breast"),
                              GramsOfObject(list, plans, recipes, "breast_again"))

-----------------------------------------------------------------------------
(* Derived values against the state they are read in *)

\* how many positions of the sequence xs hold x
CountIn(xs, x) == Cardinality({i \in Positions(xs) : xs[i] = x})

\* how many times recipe r is reached through the plan list
RECURSIVE ReachedThrough(_, _, _)
ReachedThrough(list, ps, r) ==
    IF list = <<>> THEN 0
    ELSE CountIn(ps[Head(list)].recipes, r) + ReachedThrough(Tail(list), ps, r)

\* g.get(f, 0.0) for a mapping g that grocery_list_from_plans returned
GroceryGrams(g, f) == FoodDictGet(g, f, Zero)

\* every derived value, read in the stores ps and rs, is the value of the
\* ingredients held there
Recomputed(ps, rs) ==
    /\ \A r \in RecipeIds :
           /\ Recipe_total_kj(rs[r]) =
                  EnergyOf(rs[r].ingredients)
           /\ Recipe_total_cost(rs[r]) =
                  CostOf(rs[r].ingredients)
    /\ \A p \in PlanIds :
           /\ DailyMealPlan_total_kj(ps[p], rs) =
                  EnergyOf(Occurrences(<<p>>, ps, rs))
           /\ DailyMealPlan_total_cost(ps[p], rs) =
                  CostOf(Occurrences(<<p>>, ps, rs))
    /\ \A list \in PlanLists :
           LET g == grocery_list_from_plans(list, ps, rs)
               occ == Occurrences(list, ps, rs)
           IN  \A f \in FoodIds :
                   LET EqualsF(ing) == FoodItem[ing.food] = FoodItem[f]
                   IN  GroceryGrams(g, f) = GramsOf(SelectSeq(occ, EqualsF))

\* an add(food, grams) to recipe r shows in the next read of r's totals, of
\* the totals of every plan that holds r (once per position) and of the
\* grocery list of every plan list that reaches r
AddReflected ==
    lastOp.op = "add" =>
        LET r == lastOp.recipe
            ing == [food |-> lastOp.food, grams |-> lastOp.grams]
            kj == RecipeIngredient_energy_kj(ing)
            cost == RecipeIngredient_cost(ing)
        IN  /\ Recipe_total_kj(recipes[r]) =
                   RAdd(Recipe_total_kj(before.recipes[r]), kj)
            /\ Recipe_total_cost(recipes[r]) =
                   RAdd(Recipe_total_cost(before.recipes[r]), cost)
            /\ \A p \in PlanIds :
                   /\ CountIn(before.plans[p].recipes, r) = CountIn(PlanRecipes(p), r)
                   /\ DailyMealPlan_total_kj(plans[p], recipes) =
                          RAdd(DailyMealPlan_total_kj(before.plans[p], before.recipes),
                               RMul(RatOf(CountIn(PlanRecipes(p), r)), kj))
                   /\ DailyMealPlan_total_cost(plans[p], recipes) =
                          RAdd(DailyMealPlan_total_cost(before.plans[p], before.recipes),
                               RMul(RatOf(CountIn(PlanRecipes(p), r)), cost))
            /\ \A list \in PlanLists :
                   LET was == grocery_list_from_plans(list, before.plans, before.recipes)
                       now == grocery_list_from_plans(list, plans, recipes)
                       more == RMul(RatOf(ReachedThrough(list, before.plans, r)), ing.grams)
                   IN  \A f \in FoodIds :
                           GroceryGrams(now, f) =
                               IF FoodItem[f] = FoodItem[ing.food]
                               THEN RAdd(GroceryGrams(was, f), more)
                               ELSE GroceryGrams(was, f)

\* an add_recipe(r) to plan p shows in the next read of p's totals, with
\* the ingredients r holds at that time, and in no other total
AddRecipeReflected ==
    lastOp.op = "add_recipe" =>
        LET r == lastOp.recipe
            p == lastOp.plan
        IN  /\ DailyMealPlan_total_kj(plans[p], recipes) =
                   RAdd(DailyMealPlan_total_kj(before.plans[p], before.recipes),
                        Recipe_total_kj(before.recipes[r]))
            /\ DailyMealPlan_total_cost(plans[p], recipes) =
                   RAdd(DailyMealPlan_total_cost(before.plans[p], before.recipes),
                        Recipe_total_cost(before.recipes[r]))
            /\ \A o \in PlanIds \ {p} :
                   /\ DailyMealPlan_total_kj(plans[o], recipes) =
                          DailyMealPlan_total_kj(before.plans[o], before.recipes)
                   /\ DailyMealPlan_total_cost(plans[o], recipes) =
                          DailyMealPlan_total_cost(before.plans[o], before.recipes)
            /\ \A o \in RecipeIds :
                   /\ Recipe_total_kj(recipes[o]) = Recipe_total_kj(before.recipes[o])
                   /\ Recipe_total_cost(recipes[o]) = Recipe_total_cost(before.recipes[o])

\* C7: under any interleaving of Recipe.add and DailyMealPlan.add_recipe,
\* after every operation every recipe's and plan's total_kj and total_cost
\* and the grocery list equal the values recomputed from the ingredients
\* held at that time; an ingredient added to a recipe that a plan already
\* holds is in that plan's totals on the next read.
C7_AlwaysCurrent ==
    /\ Recomputed(plans, recipes)
    /\ AddReflected
    /\ AddRecipeReflected

\* an ingredient has just been added to a recipe that a plan already held
\* twice, and the plan's total is twice that of the recipe
C7_Witness ==
    /\ lastOp.op = "add"
    /\ \E p \in PlanIds :
           /\ PlanRecipes(p) = <<lastOp.recipe, lastOp.recipe>>
           /\ DailyMealPlan_total_kj(plans[p], recipes) # Zero
           /\ DailyMealPlan_total_kj(plans[p], recipes) =
                  RMul(RatOf(2), Recipe_total_kj(recipes[lastOp.recipe]))

====
